---- MODULE Spec2Model ----
(***************************************************************************)
(* Model of dmdr-cli (src/src/main.rs): the schema store (Structure), the  *)
(* identity index (UuidIndexes), model lookup by name or UUID, subgraph    *)
(* extraction (rebuild), the DOT renderer (dump_er_dot), the listing       *)
(* (enumerate) and the three commands of main.                             *)
(*                                                                         *)
(* Strings are TLA+ strings; a Vec is a sequence; a HashMap is a function  *)
(* whose DOMAIN is the key set.  A String that the code builds with        *)
(* push_str is kept as the sequence of the pushed pieces (one statement    *)
(* per piece); Concat gives the text itself.                               *)
(***************************************************************************)
EXTENDS Integers, Sequences, FiniteSets, TLC

VARIABLES data, indexes, cur, prev, out

vars == <<data, indexes, cur, prev, out>>

(***************************************************************************)
(* Bounds of the input stores.                                             *)
(***************************************************************************)
MaxModels == 2

MaxFields == 1

MaxRelations == 2

----------------------------------------------------------------------------
(* Values of the schema entities (dmdr_core::model).                       *)

None == [tag |-> "None"]

Some(v) == [tag |-> "Some", value |-> v]

ObjectNames == {"A", "B", "2"}

MetaData(uuid, line) ==
    [uuid |-> uuid, code |-> [source_file |-> "models.py", line_number |-> line]]

Field(m, j) ==
    [name |-> "f" \o ToString(j), meta_data |-> MetaData(ToString(10 * m + j), j)]

MyModel(m, object_name, nfields) ==
    [model_name  |-> "model" \o ToString(m),
     object_name |-> object_name,
     app_label   |-> "app",
     db_table    |-> "app_model" \o ToString(m),
     fields      |-> [j \in 1..nfields |-> Field(m, j)],
     meta_data   |-> MetaData(ToString(m), m)]

Relation(src_field, target_model, relation_type) ==
    [src_field |-> src_field, target_model |-> target_model,
     relation_type |-> relation_type]

Structure(models, relations) == [models |-> models, relations |-> relations]

SeqsUpTo(S, n) == UNION {[1..k -> S] : k \in 0..n}

ModelUuids(d) == {d.models[i].meta_data.uuid : i \in DOMAIN d.models}

FieldUuids(d) ==
    UNION {{d.models[i].fields[j].meta_data.uuid : j \in DOMAIN d.models[i].fields}
              : i \in DOMAIN d.models}

(* Every field of model i points at the next model (cyclically).           *)
RingRelations(models) ==
    LET n == Len(models)
        edges == [i \in 1..n |->
                    [j \in DOMAIN models[i].fields |->
                        Relation(models[i].fields[j].meta_data.uuid,
                                 models[(i % n) + 1].meta_data.uuid,
                                 [variant |-> "ManyToOne"])]]
        F[i \in 0..n] == IF i = 0 THEN <<>> ELSE F[i - 1] \o edges[i]
    IN  F[n]

(* Stores whose names and field counts vary; relations form a ring.        *)
NamingStores ==
    {Structure(ms, RingRelations(ms)) :
        ms \in UNION {{[i \in 1..n |-> MyModel(i, names[i], nf[i])] :
                          names \in [1..n -> ObjectNames],
                          nf \in [1..n -> 0..MaxFields]} : n \in 1..MaxModels}}

(* Stores with one field per model whose relation sequence varies freely   *)
(* over the (source field, target model) pairs that satisfy the Relation   *)
(* invariant; a field that points at its own model is ManyToMany.          *)
RelationStores ==
    UNION {LET ms == [i \in 1..n |-> MyModel(i, "M" \o ToString(i), 1)]
               rels == {Relation(ms[i].fields[1].meta_data.uuid, ms[t].meta_data.uuid,
                                 [variant |-> IF i = t THEN "ManyToMany"
                                              ELSE "ManyToOne"]) :
                           i \in 1..n, t \in 1..n}
           IN  {Structure(ms, rs) : rs \in SeqsUpTo(rels, MaxRelations)}
           : n \in 1..MaxModels}

Stores == NamingStores \cup RelationStores

----------------------------------------------------------------------------
(* The identity index (dmdr_core::model::UuidIndexes): three tables built  *)
(* in one pass over the store; an insertion under an existing key          *)
(* overwrites the earlier entry.                                           *)

Insert(map, k, v) == [x \in (DOMAIN map) \cup {k} |-> IF x = k THEN v ELSE map[x]]

EmptyMap == [x \in {} |-> x]

NotFound == [tag |-> "NotFound"]

UuidIndexesNew(d) ==
    LET ms == d.models
        ModelPass[i \in 0..Len(ms)] ==
            IF i = 0 THEN EmptyMap
            ELSE Insert(ModelPass[i - 1], ms[i].meta_data.uuid, ms[i])
        NamePass[i \in 0..Len(ms)] ==
            IF i = 0 THEN EmptyMap
            ELSE Insert(NamePass[i - 1], ms[i].object_name, ms[i])
        FieldPass[i \in 0..Len(ms)] ==
            IF i = 0 THEN EmptyMap
            ELSE LET fs == ms[i].fields
                     Inner[j \in 0..Len(fs)] ==
                         IF j = 0 THEN FieldPass[i - 1]
                         ELSE Insert(Inner[j - 1], fs[j].meta_data.uuid,
                                     ms[i].meta_data.uuid)
                 IN  Inner[Len(fs)]
    IN  [models      |-> ModelPass[Len(ms)],
         model_names |-> NamePass[Len(ms)],
         fields      |-> FieldPass[Len(ms)]]

has_model(idx, id) == id \in DOMAIN idx.models

has_model_name(idx, name) == name \in DOMAIN idx.model_names

get_model(idx, uuid) == IF uuid \in DOMAIN idx.models THEN idx.models[uuid] ELSE NotFound

get_model_by_name(idx, name) ==
    IF name \in DOMAIN idx.model_names THEN idx.model_names[name] ELSE NotFound

has_field(idx, field_uuid) == field_uuid \in DOMAIN idx.fields

(* Defined for an indexed field; the lookup of any other field fails.      *)
get_model_from_field(idx, field_uuid) == idx.fields[field_uuid]

----------------------------------------------------------------------------
(* src/src/main.rs                                                         *)

(* Mutation: the UUID table is consulted before the display-name table.    *)
get_model_by_uuid_first(idx, model_name_or_uuid) ==
    LET specified_uuid == has_model(idx, model_name_or_uuid)
        specified_name == has_model_name(idx, model_name_or_uuid)
    IN  IF specified_uuid THEN Some(get_model(idx, model_name_or_uuid))
        ELSE IF specified_name THEN Some(get_model_by_name(idx, model_name_or_uuid))
        ELSE None

get_model_by(idx, model_name_or_uuid) ==
    LET specified_uuid == has_model(idx, model_name_or_uuid)
        specified_name == has_model_name(idx, model_name_or_uuid)
    IN  IF specified_name THEN Some(get_model_by_name(idx, model_name_or_uuid))
        ELSE IF specified_uuid THEN Some(get_model(idx, model_name_or_uuid))
        ELSE None

(* format!("  \"{uuid}\" [label=\"{label}\"];\n")                          *)
NodeStatement(uuid, label) ==
    "  \"" \o uuid \o "\" [label=\"" \o label \o "\"];\n"

(* format!("{:?}", rel.relation_type): the variant's name                  *)
DebugFmt(relation_type) == relation_type.variant

(* Mutation: the edge runs from the target model to the source model.      *)
EdgeStatement_reversed(src, dst, lbl) ==
    "  \"" \o dst \o "\" -> \"" \o src \o "\" [label=\"" \o lbl \o "\"];\n"

(* format!("  \"{src}\" -> \"{dst}\" [label=\"{lbl}\"];\n")                *)
EdgeStatement(src, dst, lbl) ==
    "  \"" \o src \o "\" -> \"" \o dst \o "\" [label=\"" \o lbl \o "\"];\n"

DotHeader == "digraph ER {\n"

DotTerminator == "}\n"

(* The focus test of the node pass: the model is skipped.                  *)
NodeSkipped(target_model, uuid) ==
    target_model.tag = "Some" /\ target_model.value # uuid

(* Mutation: the focus test of the edge pass is switched on.               *)
EdgeSkipped_filtering(target_model, src_model_uuid, dst_model_uuid) ==
    /\ target_model.tag = "Some"
    /\ (target_model.value # src_model_uuid \/ target_model.value # dst_model_uuid)

(* The focus test of the edge pass is commented out: no edge is skipped.   *)
EdgeSkipped(target_model, src_model_uuid, dst_model_uuid) == FALSE

(* The String dot as the sequence of the pieces pushed onto it, in order.  *)
(* panicked: the field lookup of an edge failed, which ends the pass.      *)
dump_er_dot(d, idx, target_model) ==
    LET ms == d.models
        rs == d.relations
        Nodes[i \in 0..Len(ms)] ==
            IF i = 0 THEN <<DotHeader>>
            ELSE LET uuid == ms[i].meta_data.uuid
                 IN  IF NodeSkipped(target_model, uuid)
                     THEN Nodes[i - 1]
                     ELSE Append(Nodes[i - 1], NodeStatement(uuid, ms[i].object_name))
        Edges[i \in 0..Len(rs)] ==
            IF i = 0 THEN [panicked |-> FALSE, dot |-> Nodes[Len(ms)]]
            ELSE IF Edges[i - 1].panicked THEN Edges[i - 1]
            ELSE IF ~has_field(idx, rs[i].src_field)
                 THEN [panicked |-> TRUE, dot |-> Edges[i - 1].dot]
            ELSE LET src_model_uuid == get_model_from_field(idx, rs[i].src_field)
                     dst_model_uuid == rs[i].target_model
                     rel_label == DebugFmt(rs[i].relation_type)
                 IN  IF EdgeSkipped(target_model, src_model_uuid, dst_model_uuid)
                     THEN Edges[i - 1]
                     ELSE [panicked |-> FALSE,
                           dot |-> Append(Edges[i - 1].dot,
                                          EdgeStatement(src_model_uuid, dst_model_uuid,
                                                        rel_label))]
        last == Edges[Len(rs)]
    IN  IF last.panicked THEN last
        ELSE [panicked |-> FALSE, dot |-> Append(last.dot, DotTerminator)]

ModelLine(model, show_uuid) ==
    IF show_uuid
    THEN "[M] " \o model.meta_data.uuid \o ": " \o model.object_name
    ELSE "[M] " \o model.object_name

(* Mutation: a field line carries the UUID of the owning model.            *)
FieldLine_model_uuid(model, field, show_uuid) ==
    IF show_uuid
    THEN "[F] " \o model.meta_data.uuid \o ": " \o field.name
    ELSE "[F] " \o field.name

FieldLine(model, field, show_uuid) ==
    IF show_uuid
    THEN "[F] " \o field.meta_data.uuid \o ": " \o field.name
    ELSE "[F] " \o field.name

enumerate(d, idx, show_uuid) ==
    LET ms == d.models
        Lines[i \in 0..Len(ms)] ==
            IF i = 0 THEN <<>>
            ELSE LET model == ms[i]
                     fs == model.fields
                     Inner[j \in 0..Len(fs)] ==
                         IF j = 0 THEN Append(Lines[i - 1], ModelLine(model, show_uuid))
                         ELSE Append(Inner[j - 1], FieldLine(model, fs[j], show_uuid))
                 IN  Inner[Len(fs)]
    IN  Lines[Len(ms)]

(* Mutation: every relation passes the filter.                             *)
RelationKept_all(rel, model_uuid) == TRUE

(* .filter(|rel| rel.target_model == model_uuid)                           *)
RelationKept(rel, model_uuid) == rel.target_model = model_uuid

(* Mutation: a kept relation is put in front of the collected ones.        *)
Collect_front(collected, rel) == <<rel>> \o collected

(* .map(|rel| rel.clone()).collect::<Vec<_>>()                             *)
Collect(collected, rel) == Append(collected, rel)

(* Mutation: the index that was passed in is returned with the new store.  *)
NewIndexes_stale(shared, idx) == idx

(* UuidIndexes::new(&shared.clone())                                       *)
NewIndexes(shared, idx) == UuidIndexesNew(shared)

rebuild(d, idx, model_uuid) ==
    LET model == get_model(idx, model_uuid)
        new_models == <<model>>
        rs == d.relations
        Filter[i \in 0..Len(rs)] ==
            IF i = 0 THEN <<>>
            ELSE IF RelationKept(rs[i], model_uuid)
                 THEN Collect(Filter[i - 1], rs[i])
                 ELSE Filter[i - 1]
        new_data == Structure(new_models, Filter[Len(rs)])
    IN  [data |-> new_data, indexes |-> NewIndexes(new_data, idx)]

(* lines.join(sep)                                                         *)
Join(lines, sep) ==
    LET J[i \in 0..Len(lines)] ==
            IF i = 0 THEN ""
            ELSE IF i = 1 THEN lines[1]
            ELSE J[i - 1] \o sep \o lines[i]
    IN  J[Len(lines)]

(* The text of a String given as its pushed pieces.                        *)
Concat(pieces) == Join(pieces, "")

show_meta_data(meta_data) ==
    Join(<<"uuid: " \o meta_data.uuid,
           "source file: " \o meta_data.code.source_file,
           "source line: " \o ToString(meta_data.code.line_number),
           "">>, "\n")

show_model(model, show_meta) ==
    Join(<<"model name: " \o model.model_name,
           "object name: " \o model.object_name,
           "app label: " \o model.app_label,
           "db table: " \o model.db_table,
           "fields: " \o ToString(Len(model.fields)),
           "">>, "\n")
    \o (IF show_meta THEN show_meta_data(model.meta_data) ELSE "")

(* panic!("no match {} in models", model)                                  *)
NoMatchMessage(model) == "no match " \o model \o " in models"

----------------------------------------------------------------------------
(* State: (data, indexes) is the pair load_json returned; cur is the pair  *)
(* the calls below work on and prev the pair the last rebuild was given;   *)
(* out is the result of the last call or command.  A run narrows the pair  *)
(* any number of times and ends with one call whose result is observed;    *)
(* main runs one command on the pair as loaded and the process ends.       *)

Fresh == out.op = "load_json"

Working == out.op \in {"load_json", "rebuild"}

Loaded == [data |-> data, indexes |-> indexes]

(* The strings a user can pass: every UUID and display name of the loaded  *)
(* store, and one that is neither.                                         *)
Inputs ==
    ModelUuids(data) \cup {data.models[i].object_name : i \in DOMAIN data.models}
        \cup {"nonexistent"}

OptInputs == {None} \cup {Some(s) : s \in Inputs}

Init ==
    /\ data \in Stores
    /\ indexes = UuidIndexesNew(data)
    /\ cur = [data |-> data, indexes |-> indexes]
    /\ prev = cur
    /\ out = [op |-> "load_json"]

GetModelBy(s) ==
    /\ Working
    /\ out' = [op |-> "get_model_by", arg |-> s, result |-> get_model_by(cur.indexes, s)]
    /\ UNCHANGED <<data, indexes, cur, prev>>

Rebuild(u) ==
    /\ Working
    /\ has_model(cur.indexes, u)
    /\ prev' = cur
    /\ cur' = rebuild(cur.data, cur.indexes, u)
    /\ out' = [op |-> "rebuild", arg |-> u]
    /\ UNCHANGED <<data, indexes>>

Enumerate(show_uuid) ==
    /\ Working
    /\ out' = [op |-> "enumerate", show_uuid |-> show_uuid,
               result |-> enumerate(cur.data, cur.indexes, show_uuid)]
    /\ UNCHANGED <<data, indexes, cur, prev>>

DumpErDot(target_model) ==
    /\ Working
    /\ out' = [op |-> "dump_er_dot", target_model |-> target_model,
               result |-> dump_er_dot(cur.data, cur.indexes, target_model)]
    /\ UNCHANGED <<data, indexes, cur, prev>>

(* Commands::Enumerate { uuid, model }                                     *)
MainEnumerate(uuid, model) ==
    LET found == IF model.tag = "Some" THEN get_model_by(indexes, model.value) ELSE None
        pair == IF model.tag = "Some" /\ found.tag = "Some"
                THEN rebuild(data, indexes, found.value.meta_data.uuid)
                ELSE Loaded
    IN  /\ Fresh
        /\ prev' = Loaded
        /\ cur' = pair
        /\ out' = IF model.tag = "Some" /\ found.tag = "None"
                  THEN [op |-> "main", command |-> "enumerate", model |-> model,
                        exit |-> "panic", stderr |-> NoMatchMessage(model.value),
                        stdout |-> "", file |-> None]
                  ELSE [op |-> "main", command |-> "enumerate", model |-> model,
                        exit |-> "ok", stderr |-> "",
                        stdout |-> Join(enumerate(pair.data, pair.indexes, uuid), "\n")
                                      \o "\n",
                        file |-> None]
        /\ UNCHANGED <<data, indexes>>

(* Commands::Write { model }: write_dot(&data, &indexes, model, "data.dot") *)
(* File::create is taken to succeed; out.file is the text written, as the *)
(* pieces of the String.                                                  *)
MainWrite(model) ==
    LET dot == dump_er_dot(data, indexes, model)
    IN  /\ Fresh
        /\ prev' = Loaded
        /\ cur' = Loaded
        /\ out' = IF dot.panicked
                  THEN [op |-> "main", command |-> "write", model |-> model,
                        exit |-> "panic", stderr |-> "", stdout |-> "", file |-> None]
                  ELSE [op |-> "main", command |-> "write", model |-> model,
                        exit |-> "ok", stderr |-> "", stdout |-> "",
                        file |-> Some(dot.dot)]
        /\ UNCHANGED <<data, indexes>>

(* Commands::Get { model, show_meta }                                      *)
MainGet(model, show_meta) ==
    LET found == get_model_by(indexes, model)
    IN  /\ Fresh
        /\ prev' = Loaded
        /\ cur' = Loaded
        /\ out' = IF found.tag = "Some"
                  THEN [op |-> "main", command |-> "get", model |-> Some(model),
                        exit |-> "ok", stderr |-> "",
                        stdout |-> show_model(found.value, show_meta), file |-> None]
                  ELSE [op |-> "main", command |-> "get", model |-> Some(model),
                        exit |-> "panic", stderr |-> NoMatchMessage(model),
                        stdout |-> "", file |-> None]
        /\ UNCHANGED <<data, indexes>>

Next ==
    \/ \E s \in Inputs : GetModelBy(s)
    \/ \E u \in Inputs : Rebuild(u)
    \/ \E b \in BOOLEAN : Enumerate(b)
    \/ \E t \in OptInputs : DumpErDot(t)
    \/ \E b \in BOOLEAN, m \in OptInputs : MainEnumerate(b, m)
    \/ \E m \in OptInputs : MainWrite(m)
    \/ \E s \in Inputs, b \in BOOLEAN : MainGet(s, b)

Spec == Init /\ [][Next]_vars

----------------------------------------------------------------------------
(* Vocabulary of the properties.                                           *)

Range(f) == {f[i] : i \in DOMAIN f}

NamesOf(d) == {d.models[i].object_name : i \in DOMAIN d.models}

WithUuid(d, u) == {i \in DOMAIN d.models : d.models[i].meta_data.uuid = u}

(* The UUIDs of the models of d that declare a field with UUID f.          *)
Declaring(d, f) ==
    {d.models[i].meta_data.uuid :
        i \in {k \in DOMAIN d.models :
                 \E j \in DOMAIN d.models[k].fields :
                    d.models[k].fields[j].meta_data.uuid = f}}

(* The Relation invariant of a (store, index) pair.                        *)
RelationInvariant(pair) ==
    \A r \in Range(pair.data.relations) :
        /\ r.target_model \in ModelUuids(pair.data)
        /\ has_field(pair.indexes, r.src_field)
        /\ get_model_from_field(pair.indexes, r.src_field) \in ModelUuids(pair.data)

Resolvable(pair) ==
    \A r \in Range(pair.data.relations) : has_field(pair.indexes, r.src_field)

(* The statements of the graph description, as the documents give them.    *)
NodeLine(model) ==
    "  \"" \o model.meta_data.uuid \o "\" [label=\"" \o model.object_name \o "\"];\n"

EdgeLine(d, r) ==
    "  \"" \o (CHOOSE m \in Declaring(d, r.src_field) : TRUE) \o "\" -> \""
        \o r.target_model \o "\" [label=\"" \o r.relation_type.variant \o "\"];\n"

(* C1: rebuild around an indexed UUID u returns a store whose models are   *)
(* exactly the one model of the given store with uuid u, and whose         *)
(* relations are exactly the given store's relations with target_model =   *)
(* u, in their original order, unaltered.                                  *)
C1_RebuildExact ==
    out.op = "rebuild" =>
        LET u == out.arg
            S == prev.data
            N == cur.data
        IN  /\ Cardinality(WithUuid(S, u)) = 1
            /\ \A i \in WithUuid(S, u) : N.models = <<S.models[i]>>
            /\ N.relations = SelectSeq(S.relations, LAMBDA r : r.target_model = u)

C1_Witness ==
    /\ out.op = "rebuild"
    /\ Len(prev.data.models) > 1
    /\ Len(cur.data.relations) > 0
    /\ Len(cur.data.relations) < Len(prev.data.relations)

(* C2: get_model_by looks the string up as a display name first and as a   *)
(* UUID second: a display name yields the model of that name, also when    *)
(* the string is the UUID of another model; otherwise a UUID yields the    *)
(* model of that UUID; otherwise the result is None.                       *)
C2_NameFirst ==
    out.op = "get_model_by" =>
        LET s == out.arg
            d == cur.data
        IN  /\ s \in NamesOf(d) =>
                /\ out.result.tag = "Some"
                /\ out.result.value \in Range(d.models)
                /\ out.result.value.object_name = s
            /\ (s \notin NamesOf(d) /\ s \in ModelUuids(d)) =>
                /\ out.result.tag = "Some"
                /\ out.result.value \in Range(d.models)
                /\ out.result.value.meta_data.uuid = s
            /\ (s \notin NamesOf(d) /\ s \notin ModelUuids(d)) => out.result = None

C2_Witness ==
    /\ out.op = "get_model_by"
    /\ out.arg \in NamesOf(cur.data)
    /\ out.arg \in ModelUuids(cur.data)
    /\ out.result.tag = "Some"
    /\ out.result.value.meta_data.uuid # out.arg

(* C3: a command given a focus that is neither a display name nor a UUID   *)
(* of the index ends in the not-found panic that echoes the input, and     *)
(* produces no listing, graph description or report.                       *)
C3_NotFoundFatal ==
    (/\ out.op = "main"
     /\ out.model.tag = "Some"
     /\ out.model.value \notin NamesOf(data) \cup ModelUuids(data))
    => /\ out.exit = "panic"
       /\ out.stderr = "no match " \o out.model.value \o " in models"
       /\ out.stdout = ""
       /\ out.file = None

(* C4: write with focus = a model's display name produces the graph        *)
(* description that write with focus = that model's UUID produces, and it  *)
(* contains the node statement of the model.                               *)
C4_WriteByNameOrUuid ==
    \A i \in DOMAIN data.models :
        (/\ out.op = "main"
         /\ out.command = "write"
         /\ out.model = Some(data.models[i].object_name)
         /\ Cardinality({k \in DOMAIN data.models :
                           data.models[k].object_name = data.models[i].object_name}) = 1)
        => /\ out.exit = "ok"
           /\ out.file.tag = "Some"
           /\ out.file.value
                = dump_er_dot(data, indexes, Some(data.models[i].meta_data.uuid)).dot
           /\ NodeLine(data.models[i]) \in Range(out.file.value)

(* C5: without a focus the renderer emits the header, one node statement   *)
(* per model in store order, one edge statement per relation in store      *)
(* order (from the model declaring the source field to the target model,   *)
(* labelled with the kind), and the terminator.                            *)
C5_RenderAll ==
    (out.op = "dump_er_dot" /\ out.target_model = None /\ Resolvable(cur)) =>
        LET d == cur.data
            M == Len(d.models)
            R == Len(d.relations)
            dot == out.result.dot
        IN  /\ ~out.result.panicked
            /\ Len(dot) = M + R + 2
            /\ dot[1] = "digraph ER {\n"
            /\ \A i \in 1..M : dot[1 + i] = NodeLine(d.models[i])
            /\ \A j \in 1..R : dot[1 + M + j] = EdgeLine(d, d.relations[j])
            /\ dot[M + R + 2] = "}\n"

C5_Witness ==
    /\ out.op = "dump_er_dot"
    /\ out.target_model = None
    /\ ~out.result.panicked
    /\ Len(cur.data.models) > 1
    /\ \E j \in DOMAIN cur.data.relations :
          /\ j > 1
          /\ cur.data.relations[j].target_model
                \notin Declaring(cur.data, cur.data.relations[j].src_field)

(* C6 as stated: every pair worked on, loaded or extracted, satisfies the  *)
(* Relation invariant (target_model is a model of the store, src_field     *)
(* resolves through the index to a model of the store).                    *)
C6_RelationInvariant == RelationInvariant(cur)

(* C6 amended: every pair worked on has an index built over exactly its    *)
(* store and every relation's target_model is a model of the store; a      *)
(* relation's src_field resolves through the index exactly when a model    *)
(* of the store declares that field, and then to that model.               *)
C6_TargetHalf ==
    /\ DOMAIN cur.indexes.models = ModelUuids(cur.data)
    /\ DOMAIN cur.indexes.fields = FieldUuids(cur.data)
    /\ \A r \in Range(cur.data.relations) :
          /\ r.target_model \in ModelUuids(cur.data)
          /\ has_field(cur.indexes, r.src_field) <=> Declaring(cur.data, r.src_field) # {}
          /\ has_field(cur.indexes, r.src_field) =>
                get_model_from_field(cur.indexes, r.src_field)
                    \in Declaring(cur.data, r.src_field)

C6_Witness ==
    /\ out.op = "rebuild"
    /\ RelationInvariant(prev)
    /\ \E r \in Range(cur.data.relations) :
          /\ ~has_field(cur.indexes, r.src_field)
          /\ r.target_model = out.arg

(* C7: extraction around u applied to the result of an extraction around   *)
(* u succeeds and returns the same single model and the same relation      *)
(* sequence; no extraction adds a relation.                                *)
C7_Idempotent ==
    out.op = "rebuild" =>
        LET u == out.arg
            again == rebuild(cur.data, cur.indexes, u)
        IN  /\ has_model(cur.indexes, u)
            /\ again.data.models = cur.data.models
            /\ again.data.relations = cur.data.relations
            /\ prev # Loaded => cur.data = prev.data
            /\ Range(cur.data.relations) \subseteq Range(prev.data.relations)
            /\ Len(cur.data.relations) <= Len(prev.data.relations)

C7_Witness ==
    /\ out.op = "rebuild"
    /\ prev # Loaded
    /\ Len(data.models) > 1
    /\ Len(cur.data.relations) > 1
    /\ cur.data.relations[1] # cur.data.relations[2]

C9_FocusFiltersNodesOnly ==
    (out.op = "dump_er_dot" /\ out.target_model.tag = "Some" /\ Resolvable(cur)) =>
        LET d == cur.data
            t == out.target_model.value
            nodes == SelectSeq(d.models, LAMBDA m : m.meta_data.uuid = t)
            N == Len(nodes)
            R == Len(d.relations)
            dot == out.result.dot
        IN  /\ ~out.result.panicked
            /\ Len(dot) = N + R + 2
            /\ dot[1] = "digraph ER {\n"
            /\ \A i \in 1..N : dot[1 + i] = NodeLine(nodes[i])
            /\ \A j \in 1..R : dot[1 + N + j] = EdgeLine(d, d.relations[j])
            /\ dot[N + R + 2] = "}\n"

C9_Witness ==
    /\ out.op = "dump_er_dot"
    /\ out.target_model.tag = "Some"
    /\ ~out.result.panicked
    /\ out.target_model.value \in ModelUuids(cur.data)
    /\ \E r \in Range(cur.data.relations) :
          /\ r.target_model # out.target_model.value
          /\ out.target_model.value \notin Declaring(cur.data, r.src_field)
          /\ EdgeLine(cur.data, r) \in Range(out.result.dot)

(* The three tables of idx hold exactly the models, display names and      *)
(* fields of the store d.                                                  *)
IndexOver(idx, d) ==
    /\ DOMAIN idx.models = ModelUuids(d)
    /\ \A u \in DOMAIN idx.models :
          idx.models[u] \in Range(d.models) /\ idx.models[u].meta_data.uuid = u
    /\ DOMAIN idx.model_names = NamesOf(d)
    /\ \A n \in DOMAIN idx.model_names :
          idx.model_names[n] \in Range(d.models) /\ idx.model_names[n].object_name = n
    /\ DOMAIN idx.fields = FieldUuids(d)
    /\ \A f \in DOMAIN idx.fields : idx.fields[f] \in Declaring(d, f)

(* C10: no step changes the loaded store or its index; a rebuild leaves    *)
(* the pair it was given as it was and returns a store together with an    *)
(* index built over that returned store.                                   *)
C10_NoMutation ==
    [][/\ data' = data
       /\ indexes' = indexes
       /\ out'.op = "rebuild" => (prev' = cur /\ IndexOver(cur'.indexes, cur'.data))]_vars

C10_Witness ==
    /\ out.op = "rebuild"
    /\ prev = Loaded
    /\ cur.data # data
    /\ cur.indexes # indexes
    /\ IndexOver(indexes, data)

====
